---- MODULE Spec2Model ----
(***************************************************************************)
(* A model of packages/aws-appsync/src/link/offline-link.js:               *)
(*   - OfflineLink.request: the link that answers offline queries from the *)
(*     normalized cache, queues mutations and forwards everything else;    *)
(*   - processOfflineQuery, processMutation: its two helpers;              *)
(*   - offlineEffect: the effect handler the offline scheduler calls to    *)
(*     replay a queued effect;                                             *)
(*   - discard: the predicate the scheduler calls after a failed replay.   *)
(* JavaScript values are records tagged by t, so that values of different  *)
(* JavaScript types can be compared.                                       *)
(***************************************************************************)
EXTENDS Integers, Sequences, FiniteSets, TLC

\* ------------------------------------------------------------------ bounds

\* Subscriptions of streams returned by request, over one run.
MaxCalls == 2

\* How many events the downstream link sends on one subscription.
MaxEvents == 2

\* ------------------------------------------------------- JavaScript values

Undefined == [t |-> "undefined"]

Null == [t |-> "null"]

EmptyObject == [t |-> "object", id |-> "{}"]

\* JavaScript's ToBoolean, for the values of the model: undefined, null,
\* false, 0 and "" are falsy, every object, function and non-empty string is
\* truthy.
Truthy(x) ==
    /\ x.t \notin {"undefined", "null"}
    /\ ~(x.t = "boolean" /\ x.v = FALSE)
    /\ ~(x.t = "number" /\ x.v = 0)
    /\ ~(x.t = "string" /\ x.v = "")

\* typeof x === 'function'
IsFunction(x) == x.t = "function"

\* { ...x }: a fresh object with x's own enumerable properties; spreading
\* null or undefined gives the empty object.
ShallowCopy(x) == IF x.t \in {"undefined", "null"} THEN EmptyObject ELSE x

\* Variable bindings of an operation.
Variables == {[t |-> "object", id |-> "v1"], [t |-> "object", id |-> "v2"]}

\* GraphQL documents; operation is what getOperationDefinition(doc).operation
\* gives, name what getOperationName(doc) gives.
QueryDoc == [t |-> "document", operation |-> "query", name |-> "Q"]

MutationDoc == [t |-> "document", operation |-> "mutation", name |-> "M"]

SubscriptionDoc == [t |-> "document", operation |-> "subscription", name |-> "S"]

\* The optimisticResponse values of the model: none, a static object, a
\* function of the variables, a function that returns null.
StaticResponse == [t |-> "object", id |-> "static"]

ResponseFunction == [t |-> "function", id |-> "byVariables"]

NullFunction == [t |-> "function", id |-> "returnsNull"]

OptimisticResponses == {Undefined, StaticResponse, ResponseFunction, NullFunction}

\* optimisticResponse(variables), for the functions of the model.
CallOptimistic(f, variables) ==
    IF f = ResponseFunction
    THEN [t |-> "object", id |-> "computed", from |-> variables]
    ELSE Null

RefetchQueries == [t |-> "array", id |-> "refetch"]

\* ------------------------------------------------------------- operations

\* An operation as the link receives it. AASContext is what
\* operation.getContext().AASContext holds; a field that is not set reads as
\* undefined (doIt: as false).
MakeOperation(query, variables, aas) ==
    [query |-> query, variables |-> variables, context |-> [AASContext |-> aas]]

MakeAASContext(doIt, mutation, variables, optimisticResponse, refetchQueries) ==
    [doIt |-> doIt, mutation |-> mutation, variables |-> variables,
     optimisticResponse |-> optimisticResponse, refetchQueries |-> refetchQueries]

\* The context of an operation that sets no AASContext field.
NoAASContext == MakeAASContext(FALSE, Undefined, Undefined, Undefined, Undefined)

\* Operations the application issues through the link.
QueryOperations ==
    {MakeOperation(QueryDoc, v, NoAASContext) : v \in Variables}

MutationOperation(doIt, variables, optimisticResponse) ==
    MakeOperation(MutationDoc, variables,
        MakeAASContext(doIt, MutationDoc, variables, optimisticResponse, RefetchQueries))

V1 == [t |-> "object", id |-> "v1"]

V2 == [t |-> "object", id |-> "v2"]

MutationOperations ==
    {MutationOperation(FALSE, V1, o) : o \in OptimisticResponses}
    \cup {MutationOperation(FALSE, V2, ResponseFunction)}
    \cup {MutationOperation(TRUE, V1, o) : o \in {Undefined, StaticResponse}}

OtherOperations == {MakeOperation(SubscriptionDoc, Undefined, NoAASContext)}

UserOperations == QueryOperations \cup MutationOperations \cup OtherOperations

\* ------------------------------------------------------------------ store

\* Snapshots of the normalized cache held in the store's state; NoCache is a
\* state without the NORMALIZED_CACHE_KEY entry.
NoCache == [t |-> "undefined"]

Caches == {NoCache, [t |-> "cache", id |-> "c1"]}

\* readQueryFromStore({ store, query, variables }): the projection of the
\* query and variables over a normalized store, a function of its three
\* arguments.
readQueryFromStore(store, query, variables) ==
    [t |-> "object", id |-> "projection", store |-> store, query |-> query,
     variables |-> variables]

\* processOfflineQuery reading the query without its variables.
processOfflineQuery_NoVariables(operation, theStoreCache) ==
    LET normalizedCache == IF theStoreCache = NoCache THEN EmptyObject ELSE theStoreCache
    IN  readQueryFromStore(normalizedCache, operation.query, Undefined)

\* const { [NORMALIZED_CACHE_KEY]: normalizedCache = {} } = theStore.getState();
\* then defaultNormalizedCacheFactory(normalizedCache) and readQueryFromStore.
processOfflineQuery(operation, theStoreCache) ==
    LET normalizedCache == IF theStoreCache = NoCache THEN EmptyObject ELSE theStoreCache
    IN  readQueryFromStore(normalizedCache, operation.query, operation.variables)

\* The enqueue action with an effect that is not yet marked (doIt: false).
EnqueueAction_NotMarked(mutation, variables, refetchQueries) ==
    [type |-> "SOME_ACTION",
     payload |-> EmptyObject,
     meta |-> [offline |->
        [effect |-> [mutation |-> mutation, variables |-> variables,
                     refetchQueries |-> refetchQueries, doIt |-> FALSE],
         commit |-> [type |-> "SOME_ACTION_COMMIT", meta |-> Null],
         rollback |-> [type |-> "SOME_ACTION_ROLLBACK", meta |-> Null]]]]

\* The action processMutation dispatches for an effect.
EnqueueAction(mutation, variables, refetchQueries) ==
    [type |-> "SOME_ACTION",
     payload |-> EmptyObject,
     meta |-> [offline |->
        [effect |-> [mutation |-> mutation, variables |-> variables,
                     refetchQueries |-> refetchQueries, doIt |-> TRUE],
         commit |-> [type |-> "SOME_ACTION_COMMIT", meta |-> Null],
         rollback |-> [type |-> "SOME_ACTION_ROLLBACK", meta |-> Null]]]]

\* The optimistic data processMutation computes.
OptimisticData(AASContext) ==
    IF Truthy(AASContext.optimisticResponse)
    THEN IF IsFunction(AASContext.optimisticResponse)
         THEN ShallowCopy(CallOptimistic(AASContext.optimisticResponse, AASContext.variables))
         ELSE AASContext.optimisticResponse
    ELSE Null

\* processMutation without the early return for doIt.
processMutation_NoReplayCheck(operation) ==
    LET AASContext == operation.context.AASContext
    IN  [data |-> OptimisticData(AASContext),
         dispatched |->
            <<EnqueueAction(AASContext.mutation, AASContext.variables,
                            AASContext.refetchQueries)>>]

\* processMutation queueing the effect only when there is optimistic data.
processMutation_QueueOnlyOptimistic(operation) ==
    LET AASContext == operation.context.AASContext
    IN  IF AASContext.doIt
        THEN [data |-> Undefined, dispatched |-> <<>>]
        ELSE [data |-> OptimisticData(AASContext),
              dispatched |->
                IF Truthy(OptimisticData(AASContext))
                THEN <<EnqueueAction(AASContext.mutation, AASContext.variables,
                                     AASContext.refetchQueries)>>
                ELSE <<>>]

\* processMutation(operation, theStore): the data it returns and the actions
\* it dispatches to the store, in order.
processMutation(operation) ==
    LET AASContext == operation.context.AASContext
    IN  IF AASContext.doIt
        THEN [data |-> Undefined, dispatched |-> <<>>]
        ELSE [data |-> OptimisticData(AASContext),
              dispatched |->
                <<EnqueueAction(AASContext.mutation, AASContext.variables,
                                AASContext.refetchQueries)>>]

\* Steps of one subscription of the stream request returns, as the outside
\* sees them, in order.
StepDispatch(action) == [s |-> "dispatch", action |-> action]

StepNext(result) == [s |-> "next", result |-> result]

StepComplete == [s |-> "complete"]

StepForward(operation) == [s |-> "forward", operation |-> operation]

\* { data }
ResultOf(data) == [data |-> data]

\* The steps of a mutation's dispatches.
DispatchSteps(m) == [i \in 1..Len(m.dispatched) |-> StepDispatch(m.dispatched[i])]

\* The observer request hands to forward(operation).subscribe: each event of
\* the downstream link goes to the method of the stream's observer it is
\* bound to.
BoundObserver == [next |-> "next", error |-> "error", complete |-> "complete"]

\* No subscription on the downstream link, nothing relayed.
NoRelay == [next |-> "none", error |-> "none", complete |-> "none"]

\* () => null
ReturnNull == "null"

\* () => { if (handle) handle.unsubscribe(); }
UnsubscribeHandle == "unsubscribe"

\* request going on to the downstream link after it sent the optimistic
\* data (the return after observer.complete() missing).
request_NoReturn(operation, online, cache) ==
    LET operationType == operation.query.operation
        isMutation == operationType = "mutation"
        isQuery == operationType = "query"
    IN  IF ~online /\ isQuery
        THEN [steps |-> <<StepNext(ResultOf(processOfflineQuery(operation, cache))),
                          StepComplete>>,
              handle |-> FALSE,
              relay |-> NoRelay, cleanup |-> ReturnNull]
        ELSE IF isMutation
        THEN LET m == processMutation(operation)
             IN  IF Truthy(m.data)
                 THEN [steps |-> DispatchSteps(m) \o <<StepNext(ResultOf(m.data)), StepComplete,
                                                      StepForward(operation)>>,
                       handle |-> TRUE,
              relay |-> BoundObserver, cleanup |-> UnsubscribeHandle]
                 ELSE [steps |-> DispatchSteps(m) \o <<StepForward(operation)>>,
                       handle |-> TRUE,
              relay |-> BoundObserver, cleanup |-> UnsubscribeHandle]
        ELSE [steps |-> <<StepForward(operation)>>, handle |-> TRUE,
              relay |-> BoundObserver, cleanup |-> UnsubscribeHandle]

\* request ending every mutation in the mutation branch, without going on to
\* the downstream link.
request_MutationEnds(operation, online, cache) ==
    LET operationType == operation.query.operation
        isMutation == operationType = "mutation"
        isQuery == operationType = "query"
    IN  IF ~online /\ isQuery
        THEN [steps |-> <<StepNext(ResultOf(processOfflineQuery(operation, cache))),
                          StepComplete>>,
              handle |-> FALSE,
              relay |-> NoRelay, cleanup |-> ReturnNull]
        ELSE IF isMutation
        THEN LET m == processMutation(operation)
             IN  IF Truthy(m.data)
                 THEN [steps |-> DispatchSteps(m) \o <<StepNext(ResultOf(m.data)), StepComplete>>,
                       handle |-> FALSE,
              relay |-> NoRelay, cleanup |-> ReturnNull]
                 ELSE [steps |-> DispatchSteps(m), handle |-> FALSE,
              relay |-> NoRelay, cleanup |-> ReturnNull]
        ELSE [steps |-> <<StepForward(operation)>>, handle |-> TRUE,
              relay |-> BoundObserver, cleanup |-> UnsubscribeHandle]

\* request returning a cleanup function that leaves the downstream
\* subscription alone.
request_NoUnsubscribe(operation, online, cache) ==
    LET operationType == operation.query.operation
        isMutation == operationType = "mutation"
        isQuery == operationType = "query"
    IN  IF ~online /\ isQuery
        THEN [steps |-> <<StepNext(ResultOf(processOfflineQuery(operation, cache))),
                          StepComplete>>,
              handle |-> FALSE, relay |-> NoRelay, cleanup |-> ReturnNull]
        ELSE IF isMutation /\ Truthy(processMutation(operation).data)
        THEN LET m == processMutation(operation)
             IN  [steps |-> DispatchSteps(m) \o <<StepNext(ResultOf(m.data)), StepComplete>>,
                  handle |-> FALSE, relay |-> NoRelay, cleanup |-> ReturnNull]
        ELSE [steps |-> (IF isMutation THEN DispatchSteps(processMutation(operation)) ELSE <<>>)
                            \o <<StepForward(operation)>>,
              handle |-> TRUE, relay |-> BoundObserver, cleanup |-> ReturnNull]

\* request passing the downstream link's error to the observer's complete.
request_ErrorAsComplete(operation, online, cache) ==
    LET operationType == operation.query.operation
        isMutation == operationType = "mutation"
        isQuery == operationType = "query"
    IN  IF ~online /\ isQuery
        THEN [steps |-> <<StepNext(ResultOf(processOfflineQuery(operation, cache))),
                          StepComplete>>,
              handle |-> FALSE, relay |-> NoRelay, cleanup |-> ReturnNull]
        ELSE IF isMutation /\ Truthy(processMutation(operation).data)
        THEN LET m == processMutation(operation)
             IN  [steps |-> DispatchSteps(m) \o <<StepNext(ResultOf(m.data)), StepComplete>>,
                  handle |-> FALSE, relay |-> NoRelay, cleanup |-> ReturnNull]
        ELSE [steps |-> (IF isMutation THEN DispatchSteps(processMutation(operation)) ELSE <<>>)
                            \o <<StepForward(operation)>>,
              handle |-> TRUE,
              relay |-> [BoundObserver EXCEPT !.error = "complete"],
              cleanup |-> UnsubscribeHandle]

\* A mutation handled while online goes to the downstream link at once,
\* without the queue.
request_OnlineForwards(operation, online, cache) ==
    LET operationType == operation.query.operation
        isMutation == operationType = "mutation"
        isQuery == operationType = "query"
    IN  IF ~online /\ isQuery
        THEN [steps |-> <<StepNext(ResultOf(processOfflineQuery(operation, cache))),
                          StepComplete>>,
              handle |-> FALSE,
              relay |-> NoRelay, cleanup |-> ReturnNull]
        ELSE IF isMutation /\ ~online
        THEN LET m == processMutation(operation)
             IN  IF Truthy(m.data)
                 THEN [steps |-> DispatchSteps(m) \o <<StepNext(ResultOf(m.data)), StepComplete>>,
                       handle |-> FALSE,
              relay |-> NoRelay, cleanup |-> ReturnNull]
                 ELSE [steps |-> DispatchSteps(m) \o <<StepForward(operation)>>,
                       handle |-> TRUE,
              relay |-> BoundObserver, cleanup |-> UnsubscribeHandle]
        ELSE [steps |-> <<StepForward(operation)>>, handle |-> TRUE,
              relay |-> BoundObserver, cleanup |-> UnsubscribeHandle]

\* The subscriber function of the Observable that OfflineLink.request
\* returns, run with the store's state (online, cache): the steps it takes
\* and whether it ends holding a subscription on the downstream link.
request(operation, online, cache) ==
    LET operationType == operation.query.operation
        isMutation == operationType = "mutation"
        isQuery == operationType = "query"
    IN  IF ~online /\ isQuery
        THEN [steps |-> <<StepNext(ResultOf(processOfflineQuery(operation, cache))),
                          StepComplete>>,
              handle |-> FALSE,
              relay |-> NoRelay, cleanup |-> ReturnNull]
        ELSE IF isMutation
        THEN LET m == processMutation(operation)
             IN  IF Truthy(m.data)
                 THEN [steps |-> DispatchSteps(m) \o <<StepNext(ResultOf(m.data)), StepComplete>>,
                       handle |-> FALSE,
              relay |-> NoRelay, cleanup |-> ReturnNull]
                 ELSE [steps |-> DispatchSteps(m) \o <<StepForward(operation)>>,
                       handle |-> TRUE,
              relay |-> BoundObserver, cleanup |-> UnsubscribeHandle]
        ELSE [steps |-> <<StepForward(operation)>>, handle |-> TRUE,
              relay |-> BoundObserver, cleanup |-> UnsubscribeHandle]

\* offlineEffect replaying the mutation without the effect's variables.
offlineEffect_NoVariables(effect, action) ==
    [mutation |-> effect.mutation,
     variables |-> Undefined,
     refetchQueries |-> effect.refetchQueries,
     context |-> [AASContext |-> [doIt |-> effect.doIt]]]

\* offlineEffect(client, effect, action): the options it passes to
\* client.mutate.
offlineEffect(effect, action) ==
    [mutation |-> effect.mutation,
     variables |-> effect.variables,
     refetchQueries |-> effect.refetchQueries,
     context |-> [AASContext |-> [doIt |-> effect.doIt]]]

\* client.mutate(options): the operation that reaches the link. The client
\* keeps the context's doIt and fills the other AASContext fields from the
\* options; offlineEffect's options hold no optimisticResponse.
clientMutate(options) ==
    MakeOperation(options.mutation, options.variables,
        MakeAASContext(options.context.AASContext.doIt, options.mutation,
                       options.variables, Undefined, options.refetchQueries))

\* ---------------------------------------------------------------- discard

\* discard returns true above this number of retries.
RetryCeiling == 10

\* Longest graphQLErrors list of an error, and the largest retry count the
\* scheduler passes.
MaxErrors == 2

MaxRetries == 12

\* An errorType is a string, held as its tokens so that startsWith can be
\* computed; <<>> is an entry without errorType.
ConditionalCheckType == <<"DynamoDB", ":", "ConditionalCheckFailedException">>

ValidationType == <<"SomeValidationError">>

ClientProtocolType == <<"AWSAppSyncClient", ":", "Unauthorized">>

NoType == <<>>

ServerData == [t |-> "object", id |-> "server data"]

ErrorEntry(errorType) ==
    [t |-> "object", errorType |-> errorType,
     data |-> IF errorType = ConditionalCheckType THEN ServerData ELSE Undefined,
     path |-> IF errorType = ConditionalCheckType THEN <<"x">> ELSE <<>>]

ErrorEntries ==
    {ErrorEntry(ty) : ty \in {ConditionalCheckType, ValidationType, ClientProtocolType, NoType}}

\* A field an object does not have.
Absent == [t |-> "undefined"]

SeqsUpTo(S, n) == UNION {[1..k -> S] : k \in 0..n}

\* A JavaScript array.
Array(items) == [t |-> "array", items |-> items]

\* The errors of a failed replay: graphQLErrors absent or a list, networkError
\* absent, an error without a graphQLErrors list, or one with a list.
NetworkErrors ==
    {Absent, [t |-> "object", graphQLErrors |-> Absent]}
    \cup {[t |-> "object", graphQLErrors |-> Array(l)] :
            l \in {<<>>} \cup {<<e>> : e \in ErrorEntries}
                 \cup {<<ErrorEntry(ValidationType), ErrorEntry(ClientProtocolType)>>}}

ReplayErrors ==
    {[graphQLErrors |-> g, networkError |-> n, permanent |-> p] :
        g \in {Absent} \cup {Array(l) : l \in SeqsUpTo(ErrorEntries, MaxErrors)},
        n \in NetworkErrors, p \in BOOLEAN}

\* The conflict resolvers handed to the factory: none (the default applies),
\* null (not a function), and functions that answer "DISCARD", answer the
\* server's data as new variables, throw, or answer new variables once and
\* "DISCARD" when the variables are already those.
DiscardString == [t |-> "string", v |-> "DISCARD"]

DefaultResolver == [t |-> "function", id |-> "() => null"]

DiscardResolver == [t |-> "function", id |-> "discards"]

ReplaceResolver == [t |-> "function", id |-> "takes server data"]

ThrowingResolver == [t |-> "function", id |-> "throws"]

OnceResolver == [t |-> "function", id |-> "replaces once"]

Resolvers ==
    {Undefined, Null, DiscardResolver, ReplaceResolver, ThrowingResolver, OnceResolver}

\* fn(args), for the resolvers of the model: whether it threw, and its value.
CallResolver(fn, args) ==
    IF fn = ThrowingResolver THEN [threw |-> TRUE, value |-> Undefined]
    ELSE [threw |-> FALSE,
          value |-> IF fn = DiscardResolver THEN DiscardString
                    ELSE IF fn = ReplaceResolver THEN args.data
                    ELSE IF fn = OnceResolver
                    THEN (IF args.variables = V2 THEN DiscardString ELSE V2)
                    ELSE Null]

\* String.prototype.startsWith, on tokens.
StartsWith(str, prefix) ==
    /\ Len(str) >= Len(prefix)
    /\ SubSeq(str, 1, Len(prefix)) = prefix

\* Array.prototype.find: the first element that satisfies the test (hits
\* are the indices of those that do), or undefined.
Find(list, hits) ==
    IF hits = {} THEN Undefined
    ELSE list[CHOOSE i \in hits : \A k \in hits : i <= k]

IsConditionalCheck(err) == err.errorType = ConditionalCheckType

\* err.errorType && err.errorType.startsWith('AWSAppSyncClient:')
IsAppSyncClientError(err) ==
    /\ err.errorType # NoType
    /\ StartsWith(err.errorType, <<"AWSAppSyncClient", ":">>)

\* What a call of the predicate did: the boolean it returned, or that it
\* threw; the action as the call left it; whether it called the resolver.
Returned(result, action, invoked) ==
    [threw |-> FALSE, result |-> result, action |-> action, invoked |-> invoked]

Threw(action, invoked) ==
    [threw |-> TRUE, result |-> FALSE, action |-> action, invoked |-> invoked]

\* return error.permanent || retries > 10;
DefaultRule(error, action, retries, invoked) ==
    Returned(error.permanent \/ retries > RetryCeiling, action, invoked)

\* The resolver's answer taken as a discard whatever it is (the test for
\* "DISCARD" widened to any truthy answer).
ApplyResolution_AlwaysDiscard(call, error, action, retries) ==
    IF call.threw
    THEN Returned(TRUE, action, TRUE)
    ELSE IF Truthy(call.value)
    THEN Returned(TRUE, action, TRUE)
    ELSE DefaultRule(error, action, retries, TRUE)

\* The resolver's exception taken as a retry.
ApplyResolution_RetryOnThrow(call, error, action, retries) ==
    IF call.threw
    THEN Returned(FALSE, action, TRUE)
    ELSE IF call.value = DiscardString
    THEN Returned(TRUE, action, TRUE)
    ELSE IF Truthy(call.value)
    THEN Returned(FALSE,
            [action EXCEPT !.meta.offline.effect.variables = call.value], TRUE)
    ELSE DefaultRule(error, action, retries, TRUE)

\* The resolver's answer assigned to the variables before it is tested.
ApplyResolution_AssignsFirst(call, error, action, retries) ==
    IF call.threw
    THEN Returned(TRUE, action, TRUE)
    ELSE IF call.value = DiscardString
    THEN Returned(TRUE,
            [action EXCEPT !.meta.offline.effect.variables = call.value], TRUE)
    ELSE IF Truthy(call.value)
    THEN Returned(FALSE,
            [action EXCEPT !.meta.offline.effect.variables = call.value], TRUE)
    ELSE DefaultRule(error, action, retries, TRUE)

\* The resolver's new variables answered with false, but not stored in the
\* action.
ApplyResolution_NoOverwrite(call, error, action, retries) ==
    IF call.threw
    THEN Returned(TRUE, action, TRUE)
    ELSE IF call.value = DiscardString
    THEN Returned(TRUE, action, TRUE)
    ELSE IF Truthy(call.value)
    THEN Returned(FALSE, action, TRUE)
    ELSE DefaultRule(error, action, retries, TRUE)

\* The resolver's new variables answered by the default rule once the retry
\* ceiling is passed.
ApplyResolution_Ceiling(call, error, action, retries) ==
    IF call.threw
    THEN Returned(TRUE, action, TRUE)
    ELSE IF call.value = DiscardString
    THEN Returned(TRUE, action, TRUE)
    ELSE IF Truthy(call.value) /\ ~(error.permanent \/ retries > RetryCeiling)
    THEN Returned(FALSE,
            [action EXCEPT !.meta.offline.effect.variables = call.value], TRUE)
    ELSE DefaultRule(error, action, retries, TRUE)

\* The try block around the resolver's call and its catch: what the predicate
\* does with the resolver's answer.
ApplyResolution(call, error, action, retries) ==
    IF call.threw
    THEN Returned(TRUE, action, TRUE)
    ELSE IF call.value = DiscardString
    THEN Returned(TRUE, action, TRUE)
    ELSE IF Truthy(call.value)
    THEN Returned(FALSE,
            [action EXCEPT !.meta.offline.effect.variables = call.value], TRUE)
    ELSE DefaultRule(error, action, retries, TRUE)

\* The arguments the resolver is called with.
ResolverArgs(conditionalCheck, action, retries) ==
    LET effect == action.meta.offline.effect
    IN  [mutation |-> effect.mutation,
         mutationName |-> effect.mutation.name,
         operationType |-> effect.mutation.operation,
         variables |-> effect.variables,
         data |-> conditionalCheck.data,
         retries |-> retries]

\* The branch of a conditional check failure, discarding when fn is no
\* function.
ConditionalCheckRule_DiscardsWithoutResolver(fn, conditionalCheck, error, action, retries) ==
    IF IsFunction(fn)
    THEN ApplyResolution(CallResolver(fn, ResolverArgs(conditionalCheck, action, retries)),
                         error, action, retries)
    ELSE Returned(TRUE, action, FALSE)

\* The branch of a conditional check failure.
ConditionalCheckRule(fn, conditionalCheck, error, action, retries) ==
    IF IsFunction(fn)
    THEN ApplyResolution(CallResolver(fn, ResolverArgs(conditionalCheck, action, retries)),
                         error, action, retries)
    ELSE DefaultRule(error, action, retries, FALSE)

\* The branch of an empty graphQLErrors list, looking only at the first
\* entry of the nested list.
NetworkErrorRule_FirstEntryOnly(error, action, retries) ==
    IF error.networkError # Absent /\ error.networkError.graphQLErrors = Absent
    THEN Threw(action, FALSE)
    ELSE LET nested ==
                IF error.networkError = Absent THEN <<>>
                ELSE error.networkError.graphQLErrors.items
         IN  IF nested # <<>> /\ IsAppSyncClientError(nested[1])
             THEN Returned(TRUE, action, FALSE)
             ELSE DefaultRule(error, action, retries, FALSE)

\* The branch of an empty graphQLErrors list: the list nested in
\* networkError, whose find throws when networkError holds no list.
NetworkErrorRule(error, action, retries) ==
    IF error.networkError # Absent /\ error.networkError.graphQLErrors = Absent
    THEN Threw(action, FALSE)
    ELSE LET nested ==
                IF error.networkError = Absent THEN <<>>
                ELSE error.networkError.graphQLErrors.items
             appSyncClientError == Find(nested, {i \in 1..Len(nested) : IsAppSyncClientError(nested[i])})
         IN  IF Truthy(appSyncClientError)
             THEN Returned(TRUE, action, FALSE)
             ELSE DefaultRule(error, action, retries, FALSE)

\* The branches without a conditional check failure, with a non-empty list
\* left to the default rule.
OtherErrorsRule_Retried(graphQLErrors, error, action, retries) ==
    IF Len(graphQLErrors) # 0
    THEN DefaultRule(error, action, retries, FALSE)
    ELSE NetworkErrorRule(error, action, retries)

\* The branches without a conditional check failure: a non-empty
\* graphQLErrors list discards.
OtherErrorsRule(graphQLErrors, error, action, retries) ==
    IF Len(graphQLErrors) # 0
    THEN Returned(TRUE, action, FALSE)
    ELSE NetworkErrorRule(error, action, retries)

\* The predicate discard(fn) returns, called with (error, action, retries).
\* The factory's default parameter replaces an undefined fn by () => null.
discard(fn0, error, action, retries) ==
    LET fn == IF fn0 = Undefined THEN DefaultResolver ELSE fn0
        graphQLErrors ==
            IF error.graphQLErrors = Absent THEN <<>> ELSE error.graphQLErrors.items
        conditionalCheck ==
            Find(graphQLErrors,
                 {i \in 1..Len(graphQLErrors) : IsConditionalCheck(graphQLErrors[i])})
    IN  IF Truthy(conditionalCheck)
        THEN ConditionalCheckRule(fn, conditionalCheck, error, action, retries)
        ELSE OtherErrorsRule(graphQLErrors, error, action, retries)

\* ------------------------------------------------------------------ state

VARIABLES
    online,     \* store.getState().offline.online
    cache,      \* store.getState()[NORMALIZED_CACHE_KEY]
    log,        \* the actions dispatched to the store, in order
    outbox,     \* the scheduler's queue of effects awaiting commit or discard
    calls,      \* the subscriptions of request's streams so far
    sched       \* the scheduler's call of the discard predicate, if any

linkVars == <<online, cache, log, outbox, calls>>

vars == <<online, cache, log, outbox, calls, sched>>

\* The scheduler has not called the discard predicate.
Idle == [phase |-> "idle"]

\* An outbox entry: the queued action, the call that enqueued it, and the
\* number of times it was handed to offlineEffect.
OutboxEntry(action, origin) == [action |-> action, origin |-> origin, attempts |-> 0]

NoEffect == [t |-> "undefined"]

NoOptions == [t |-> "undefined"]

\* The calls made so far.
CallIds == 1..Len(calls)

\* The index a call made now gets.
NextCall == Len(calls) + 1

\* The stream's consumer has not unsubscribed.
NotCancelled == 0 - 1

\* One subscription of request(operation, forward): the subscriber function
\* runs against the current store; what it dispatches reaches the store and
\* is queued by the scheduler (box is the queue before that). effect is the
\* replayed effect and options what offlineEffect passed to client.mutate
\* (NoEffect, NoOptions for a call of the application), origin the call that
\* enqueued that effect (0 when no call did). The call
\* records the store's state it ran against.
Handle(operation, effect, options, origin, box) ==
    /\ Len(calls) < MaxCalls
    /\ LET r == request(operation, online, cache)
           dispatched == SelectSeq(r.steps, LAMBDA st : st.s = "dispatch")
           actions == [i \in 1..Len(dispatched) |-> dispatched[i].action]
       IN  /\ calls' = Append(calls,
                [operation |-> operation, replayOf |-> effect, options |-> options,
                 origin |-> origin,
                 online |-> online, cache |-> cache,
                 steps |-> r.steps, handle |-> r.handle,
                 relay |-> r.relay, cleanup |-> r.cleanup,
                 sub |-> IF r.handle THEN "open" ELSE "none",
                 sent |-> <<>>, received |-> <<>>, cancelAt |-> NotCancelled])
           /\ log' = log \o actions
           /\ outbox' = box \o [i \in 1..Len(actions) |-> OutboxEntry(actions[i], NextCall)]

Init ==
    /\ online \in BOOLEAN
    /\ cache \in Caches
    /\ log = <<>>
    /\ outbox = <<>>
    /\ calls = <<>>
    /\ sched = Idle

\* The application issues an operation and subscribes to the stream.
UserRequest ==
    /\ \E operation \in UserOperations : Handle(operation, NoEffect, NoOptions, 0, outbox)
    /\ UNCHANGED <<online, cache, sched>>

\* The scheduler hands the head of its queue to offlineEffect; client.mutate
\* sends the mutation through the link.
Replay ==
    /\ outbox # <<>>
    /\ LET entry == Head(outbox)
           effect == entry.action.meta.offline.effect
           options == offlineEffect(effect, entry.action)
       IN  Handle(clientMutate(options), effect, options, entry.origin,
                  [outbox EXCEPT ![1].attempts = @ + 1])
    /\ UNCHANGED <<online, cache, sched>>

\* The scheduler drops the head of its queue once an attempt has settled it:
\* committed after a success, rolled back after a discard.
Settle ==
    /\ outbox # <<>>
    /\ Head(outbox).attempts > 0
    /\ outbox' = Tail(outbox)
    /\ UNCHANGED <<online, cache, log, calls, sched>>

\* The connectivity flag of the store changes.
SetOnline ==
    /\ online' = ~online
    /\ UNCHANGED <<cache, log, outbox, calls, sched>>

\* The cache entry of the store's state changes.
CacheWrite ==
    /\ \E c \in Caches \ {cache} : cache' = c
    /\ UNCHANGED <<online, log, outbox, calls, sched>>

Next == UserRequest \/ Replay \/ Settle \/ SetOnline \/ CacheWrite

Spec == Init /\ [][Next]_vars

\* offlineEffect is exported to the scheduler, which may hand it any effect
\* of its queue, also one this link did not create.
ForeignEffects ==
    {[mutation |-> MutationDoc, variables |-> v, refetchQueries |-> RefetchQueries,
      doIt |-> d] : v \in Variables, d \in BOOLEAN}

ForeignAction(effect) ==
    [type |-> "FOREIGN_ACTION", payload |-> EmptyObject,
     meta |-> [offline |-> [effect |-> effect]]]

ReplayForeign ==
    /\ \E effect \in ForeignEffects :
            LET options == offlineEffect(effect, ForeignAction(effect))
            IN  Handle(clientMutate(options), effect, options, 0, outbox)
    /\ UNCHANGED <<online, cache, sched>>

NextReplay == Next \/ ReplayForeign

\* The link with a scheduler that replays effects of any origin.
SpecReplay == Init /\ [][NextReplay]_vars

\* The application subscribes to one stream.
Subscribe ==
    /\ calls = <<>>
    /\ \E operation \in UserOperations : Handle(operation, NoEffect, NoOptions, 0, outbox)
    /\ UNCHANGED <<online, cache, sched>>

\* An event of the downstream link on the subscription request holds: the
\* link's observer passes it to the method it is bound to, and the stream
\* delivers it unless its consumer has unsubscribed. An error or a complete
\* ends the subscription.
TransportEvent(i, kind) ==
    LET c == calls[i]
        event == [k |-> kind, n |-> Len(c.sent) + 1]
    IN  /\ c.sub = "open"
        /\ Len(c.sent) < MaxEvents
        /\ calls' = [calls EXCEPT ![i] =
                [c EXCEPT !.sent = Append(c.sent, event),
                          !.received = IF c.cancelAt = NotCancelled /\ c.relay[kind] # "none"
                                       THEN Append(c.received, [k |-> c.relay[kind], n |-> event.n])
                                       ELSE c.received,
                          !.sub = IF kind = "next" THEN "open" ELSE "done"]]
        /\ UNCHANGED <<online, cache, log, outbox, sched>>

TransportNext == \E i \in CallIds : TransportEvent(i, "next")

TransportError == \E i \in CallIds : TransportEvent(i, "error")

TransportComplete == \E i \in CallIds : TransportEvent(i, "complete")

\* The consumer unsubscribes from the stream: the cleanup function request
\* returned runs, unless the stream has ended already.
Cancel ==
    \E i \in CallIds :
        LET c == calls[i]
            ended == c.sub = "done" \/ \E j \in 1..Len(c.steps) : c.steps[j] = StepComplete
        IN  /\ c.cancelAt = NotCancelled
            /\ calls' = [calls EXCEPT ![i] =
                    [c EXCEPT !.cancelAt = Len(c.sent),
                              !.sub = IF ~ended /\ c.cleanup = UnsubscribeHandle /\ c.handle
                                      THEN "unsubscribed" ELSE c.sub]]
            /\ UNCHANGED <<online, cache, log, outbox, sched>>

NextStream ==
    \/ Subscribe
    \/ SetOnline
    \/ CacheWrite
    \/ TransportNext
    \/ TransportError
    \/ TransportComplete
    \/ Cancel

\* One stream of the link, its downstream subscription and its consumer.
SpecStream == Init /\ [][NextStream]_vars

\* The queued actions the scheduler calls the predicate with.
QueuedActions == {EnqueueAction(MutationDoc, v, RefetchQueries) : v \in Variables}

\* The scheduler is about to call discard(fn)(error, action, retries) after a
\* failed replay; the link has handled nothing.
InitDiscard ==
    /\ online = TRUE
    /\ cache = NoCache
    /\ log = <<>>
    /\ outbox = <<>>
    /\ calls = <<>>
    /\ sched \in {[phase |-> "failed", fn |-> f, error |-> e, action |-> a, retries |-> r] :
                    f \in Resolvers, e \in ReplayErrors, a \in QueuedActions,
                    r \in 0..MaxRetries}

\* The scheduler calls the predicate.
Discard ==
    /\ sched.phase = "failed"
    /\ sched' = [outcome |-> discard(sched.fn, sched.error, sched.action, sched.retries)]
                @@ [sched EXCEPT !.phase = "decided"]
    /\ UNCHANGED linkVars

NextDiscard == Discard

SpecDiscard == InitDiscard /\ [][NextDiscard]_vars

\* The errors of the scheduler's loops: graphQLErrors empty or with one
\* entry, networkError absent, without a list, or with a list of at most one
\* entry.
LoopErrors ==
    {[graphQLErrors |-> g, networkError |-> n, permanent |-> p] :
        g \in {Array(<<>>), Array(<<ErrorEntry(ConditionalCheckType)>>),
               Array(<<ErrorEntry(ValidationType)>>)},
        n \in {Absent, [t |-> "object", graphQLErrors |-> Absent],
               [t |-> "object", graphQLErrors |-> Array(<<>>)],
               [t |-> "object", graphQLErrors |-> Array(<<ErrorEntry(ClientProtocolType)>>)]},
        p \in BOOLEAN}

\* An error that is not permanent and matches none of the predicate's first
\* three rules: no graphQLErrors entry, no client protocol error nested in
\* networkError.
TransientNotPermanent(error) ==
    /\ ~error.permanent
    /\ (error.graphQLErrors = Absent \/ error.graphQLErrors.items = <<>>)
    /\ \/ error.networkError = Absent
       \/ error.networkError.graphQLErrors = Absent
       \/ \A i \in 1..Len(error.networkError.graphQLErrors.items) :
            error.networkError.graphQLErrors.items[i].errorType # ClientProtocolType

\* The first attempt of a queued effect has failed; the scheduler counts no
\* retry yet. onlyTransient records that every failure so far was a transient
\* error that is not permanent.
InitRetry ==
    /\ online = TRUE
    /\ cache = NoCache
    /\ log = <<>>
    /\ outbox = <<>>
    /\ calls = <<>>
    /\ sched \in {[phase |-> "failed", fn |-> f, error |-> e, action |-> a, retries |-> 0,
                   onlyTransient |-> TransientNotPermanent(e)] :
                    f \in Resolvers, e \in LoopErrors, a \in QueuedActions}

\* The predicate answered false: the scheduler keeps the action as the
\* predicate left it, counts one more retry and replays the effect, which
\* fails again.
Retry ==
    /\ sched.phase = "decided"
    /\ ~sched.outcome.threw
    /\ sched.outcome.result = FALSE
    /\ sched.retries < MaxRetries
    /\ \E e \in LoopErrors :
        sched' = [phase |-> "failed", fn |-> sched.fn, error |-> e,
                  action |-> sched.outcome.action, retries |-> sched.retries + 1,
                  onlyTransient |-> sched.onlyTransient /\ TransientNotPermanent(e)]
    /\ UNCHANGED linkVars

NextRetry == Discard \/ Retry

\* The scheduler's loop: call the predicate after each failure, retry while
\* it answers false.
SpecRetry == InitRetry /\ [][NextRetry]_vars

\* The scheduler is about to call the predicate, and will call it again with
\* the same error, the same action object and the same retry count.
InitTwice ==
    /\ online = TRUE
    /\ cache = NoCache
    /\ log = <<>>
    /\ outbox = <<>>
    /\ calls = <<>>
    /\ sched \in {[phase |-> "failed", fn |-> f, error |-> e, action |-> a, retries |-> r] :
                    f \in Resolvers, e \in LoopErrors, a \in QueuedActions,
                    r \in 0..MaxRetries}

\* The second call: the action is the object the first call may have
\* changed.
DiscardAgain ==
    /\ sched.phase = "decided"
    /\ sched' = [second |-> discard(sched.fn, sched.error, sched.outcome.action,
                                    sched.retries)]
                @@ [sched EXCEPT !.phase = "decided twice"]
    /\ UNCHANGED linkVars

NextTwice == Discard \/ DiscardAgain

SpecTwice == InitTwice /\ [][NextTwice]_vars

\* ------------------------------------------------- reading the calls

IsMutationOp(operation) == operation.query.operation = "mutation"

IsQueryOp(operation) == operation.query.operation = "query"

IsReplayOp(operation) == operation.context.AASContext.doIt

\* The operation declares an optimistic response.
Declares(operation) == Truthy(operation.context.AASContext.optimisticResponse)

\* The optimistic value an operation declares: the static value, or a
\* shallow copy of what the function gives for the variables.
OptimisticValue(operation) ==
    LET o == operation.context.AASContext.optimisticResponse
        v == operation.context.AASContext.variables
    IN  IF o.t = "function"
        THEN (IF CallOptimistic(o, v).t = "object" THEN CallOptimistic(o, v) ELSE EmptyObject)
        ELSE o

StepsOf(c, kind) == SelectSeq(c.steps, LAMBDA st : st.s = kind)

\* What the consumer of the stream saw, in order.
Emitted(c) == SelectSeq(c.steps, LAMBDA st : st.s \in {"next", "complete"})

NextCount(c) == Len(StepsOf(c, "next"))

ForwardCount(c) == Len(StepsOf(c, "forward"))

DispatchCount(c) == Len(StepsOf(c, "dispatch"))

\* The calls of one mutation's lifecycle: the call i of the application and
\* the replays of the effect it enqueued.
Lifecycle(i) == {j \in CallIds : j = i \/ calls[j].origin = i}

RECURSIVE SumOver(_, _)
SumOver(f, S) ==
    IF S = {} THEN 0
    ELSE LET x == CHOOSE y \in S : TRUE IN f[x] + SumOver(f, S \ {x})

\* ------------------------------------------------------------ the claims

\* C1: a mutation that declares an optimistic response and is no replay
\* emits exactly one result, the optimistic value, then completes, and is
\* not forwarded to the downstream link; over a mutation's lifecycle (its
\* call and the replays of its effect) at most one result is emitted by the
\* link itself; a mutation that declares none gets none.
C1_OptimisticExactlyOnce ==
    \A i \in CallIds :
        LET c == calls[i]
        IN  IsMutationOp(c.operation) =>
                /\ (~IsReplayOp(c.operation) /\ Declares(c.operation)) =>
                        /\ Emitted(c) = <<StepNext(ResultOf(OptimisticValue(c.operation))),
                                          StepComplete>>
                        /\ c.steps[Len(c.steps)] = StepComplete
                        /\ ForwardCount(c) = 0
                        /\ ~c.handle
                /\ c.origin = 0 =>
                        SumOver([j \in CallIds |-> NextCount(calls[j])], Lifecycle(i)) <= 1
                /\ ~Declares(c.operation) => NextCount(c) = 0

\* A mutation with an optimistic response was handled and its effect replayed.
C1_Witness ==
    \E i, j \in CallIds :
        /\ IsMutationOp(calls[i].operation)
        /\ ~IsReplayOp(calls[i].operation)
        /\ Declares(calls[i].operation)
        /\ NextCount(calls[i]) = 1
        /\ calls[j].origin = i

C3_ReplayPassThrough ==
    \A i \in CallIds :
        LET c == calls[i]
        IN  (IsMutationOp(c.operation) /\ IsReplayOp(c.operation)) =>
                /\ c.steps = <<StepForward(c.operation)>>
                /\ c.handle

\* A queued effect was replayed through the link with doIt set.
C3_Witness ==
    \E j \in CallIds :
        /\ calls[j].replayOf # NoEffect
        /\ IsMutationOp(calls[j].operation)
        /\ IsReplayOp(calls[j].operation)
        /\ ForwardCount(calls[j]) = 1

\* C4: the store has received as many enqueue actions as non-replay
\* mutations were handled: one per such mutation, none for any other call.
C4_OneEnqueuePerMutation ==
    /\ Len(log) = Cardinality({i \in CallIds :
            IsMutationOp(calls[i].operation) /\ ~IsReplayOp(calls[i].operation)})
    /\ \A k \in 1..Len(log) : log[k].type = "SOME_ACTION"
    /\ \A i \in CallIds :
        DispatchCount(calls[i]) =
            IF IsMutationOp(calls[i].operation) /\ ~IsReplayOp(calls[i].operation)
            THEN 1 ELSE 0

\* Two non-replay mutations were handled, one with an optimistic response
\* and one without.
C4_Witness ==
    /\ Len(log) = 2
    /\ \E i, j \in CallIds :
        /\ IsMutationOp(calls[i].operation) /\ Declares(calls[i].operation)
        /\ IsMutationOp(calls[j].operation) /\ ~Declares(calls[j].operation)
        /\ ~IsReplayOp(calls[i].operation) /\ ~IsReplayOp(calls[j].operation)

\* C5: a non-replay mutation that declares no optimistic response dispatches
\* the enqueue action for its effect and then forwards the same operation,
\* in the one call; every replay of that effect forwards the mutation again.
C5_EnqueueAndForward ==
    \A i \in CallIds :
        LET c == calls[i]
            aas == c.operation.context.AASContext
        IN  (IsMutationOp(c.operation) /\ ~IsReplayOp(c.operation) /\ ~Declares(c.operation)) =>
                /\ c.steps = <<StepDispatch(EnqueueAction(aas.mutation, aas.variables,
                                                          aas.refetchQueries)),
                               StepForward(c.operation)>>
                /\ c.handle
                /\ \A j \in Lifecycle(i) \ {i} :
                        /\ ForwardCount(calls[j]) = 1
                        /\ StepsOf(calls[j], "forward")[1].operation.query = aas.mutation
                        /\ StepsOf(calls[j], "forward")[1].operation.variables = aas.variables

\* A mutation without optimistic response was enqueued and forwarded, and
\* its effect was replayed.
C5_Witness ==
    \E i, j \in CallIds :
        /\ IsMutationOp(calls[i].operation)
        /\ ~IsReplayOp(calls[i].operation)
        /\ ~Declares(calls[i].operation)
        /\ ForwardCount(calls[i]) = 1
        /\ j # i
        /\ calls[j].origin = i
        /\ ForwardCount(calls[j]) = 1

\* The effects the store was sent, the scheduler holds or has replayed.
KnownEffects ==
    {log[k].meta.offline.effect : k \in 1..Len(log)}
    \cup {outbox[k].action.meta.offline.effect : k \in 1..Len(outbox)}
    \cup {calls[j].replayOf : j \in {i \in CallIds : calls[i].origin # 0}}

ReplayIds == {j \in CallIds : calls[j].replayOf # NoEffect}

C7_WitnessForeign ==
    \E j \in ReplayIds : ~calls[j].replayOf.doIt /\ DispatchCount(calls[j]) = 1

\* ----------------------------------------------- reading the predicate

\* The graphQLErrors list of the error the scheduler passed.
ErrorList == IF sched.error.graphQLErrors = Absent THEN <<>> ELSE sched.error.graphQLErrors.items

\* The list holds a conditional check failure.
HasConditionalCheck ==
    \E i \in 1..Len(ErrorList) : ErrorList[i].errorType = ConditionalCheckType

\* The resolver in force and what it answers for the queued action.
ResolverInForce == IF sched.fn = Undefined THEN DefaultResolver ELSE sched.fn

ResolverAnswer ==
    CallResolver(ResolverInForce,
        [variables |-> sched.action.meta.offline.effect.variables, data |-> ServerData])

Decided == sched.phase = "decided"

\* C8: with a conditional check failure among the graphQLErrors and a
\* resolver that returns a truthy value other than "DISCARD", the predicate
\* returns false and the queued effect's variables are exactly that value.
C8_ReplacementVariables ==
    (/\ Decided
     /\ HasConditionalCheck
     /\ IsFunction(ResolverInForce)
     /\ ~ResolverAnswer.threw
     /\ Truthy(ResolverAnswer.value)
     /\ ResolverAnswer.value # DiscardString) =>
        /\ ~sched.outcome.threw
        /\ sched.outcome.result = FALSE
        /\ sched.outcome.action.meta.offline.effect.variables = ResolverAnswer.value

\* The resolver answered new variables for a conflict and the call retried.
C8_Witness ==
    /\ Decided
    /\ HasConditionalCheck
    /\ sched.fn = ReplaceResolver
    /\ sched.outcome.result = FALSE
    /\ sched.outcome.action.meta.offline.effect.variables = ServerData

\* C9: with a conditional check failure among the graphQLErrors and a
\* resolver that throws, the predicate catches the exception and returns
\* true, for every retry count and either value of error.permanent.
C9_ResolverThrowsDiscards ==
    (/\ Decided
     /\ HasConditionalCheck
     /\ IsFunction(ResolverInForce)
     /\ ResolverAnswer.threw) =>
        /\ ~sched.outcome.threw
        /\ sched.outcome.result = TRUE
        /\ sched.outcome.invoked

\* The resolver threw on the first failure of an error that is not permanent.
C9_Witness ==
    /\ Decided
    /\ HasConditionalCheck
    /\ sched.fn = ThrowingResolver
    /\ sched.retries = 0
    /\ ~sched.error.permanent
    /\ sched.outcome.result = TRUE

\* C10: with a non-empty graphQLErrors list that holds no conditional check
\* failure, the predicate returns true whatever the resolver, the retry count
\* and error.permanent, and does not call the resolver.
C10_GeneralErrorsDiscard ==
    (/\ Decided
     /\ Len(ErrorList) > 0
     /\ ~HasConditionalCheck) =>
        /\ ~sched.outcome.threw
        /\ sched.outcome.result = TRUE
        /\ ~sched.outcome.invoked
        /\ sched.outcome.action = sched.action

\* A validation error was discarded at the first failure, with a resolver
\* that would have answered new variables.
C10_Witness ==
    /\ Decided
    /\ ErrorList = <<ErrorEntry(ValidationType)>>
    /\ sched.fn = ReplaceResolver
    /\ sched.retries = 0
    /\ ~sched.error.permanent
    /\ sched.outcome.result = TRUE

\* The list nested in networkError, when there is one.
NestedList ==
    IF sched.error.networkError = Absent THEN <<>>
    ELSE IF sched.error.networkError.graphQLErrors = Absent THEN <<>>
    ELSE sched.error.networkError.graphQLErrors.items

\* The nested list holds a client protocol error.
HasClientProtocolError ==
    \E i \in 1..Len(NestedList) :
        /\ Len(NestedList[i].errorType) >= 2
        /\ NestedList[i].errorType[1] = "AWSAppSyncClient"
        /\ NestedList[i].errorType[2] = ":"

\* C11: with graphQLErrors empty or absent and a client protocol error in
\* the list nested in networkError, the predicate returns true for every
\* retry count, also at the first failure of an error that is not permanent.
C11_ClientProtocolDiscards ==
    (/\ Decided
     /\ Len(ErrorList) = 0
     /\ HasClientProtocolError) =>
        /\ ~sched.outcome.threw
        /\ sched.outcome.result = TRUE
        /\ sched.outcome.action = sched.action

\* A client protocol error that is not the first nested entry was discarded
\* at the first failure.
C11_Witness ==
    /\ Decided
    /\ sched.error.graphQLErrors = Array(<<>>)
    /\ NestedList = <<ErrorEntry(ValidationType), ErrorEntry(ClientProtocolType)>>
    /\ sched.retries = 0
    /\ ~sched.error.permanent
    /\ sched.outcome.result = TRUE

\* An error of none of the first three rules: no graphQLErrors entry and no
\* client protocol error nested in networkError.
IsTransient == Len(ErrorList) = 0 /\ ~HasClientProtocolError

\* C12 as stated: for an error of none of the first three rules the
\* predicate returns false for retries 0..10 and true above when the error is
\* not permanent, and true for every retry count when it is.
C12_AsStated ==
    (Decided /\ IsTransient) =>
        /\ ~sched.outcome.threw
        /\ sched.outcome.result = (sched.error.permanent \/ sched.retries > 10)

\* The resolver's answer is a replacement of the variables: the error holds
\* a conditional check failure and the resolver returns a truthy value other
\* than "DISCARD".
AnswersReplacement ==
    /\ HasConditionalCheck
    /\ IsFunction(ResolverInForce)
    /\ ~ResolverAnswer.threw
    /\ Truthy(ResolverAnswer.value)
    /\ ResolverAnswer.value # DiscardString

\* C17: with a conditional check failure and no usable resolver, or a
\* resolver that returns a falsy value, the predicate leaves the action as it
\* was and returns what the default rule returns, also when the list holds
\* other entries beside the conditional check failure.
C17_FallsThroughToDefault ==
    (/\ Decided
     /\ HasConditionalCheck
     /\ \/ ~IsFunction(ResolverInForce)
        \/ (~ResolverAnswer.threw /\ ~Truthy(ResolverAnswer.value))) =>
        /\ ~sched.outcome.threw
        /\ sched.outcome.result = (sched.error.permanent \/ sched.retries > 10)
        /\ sched.outcome.action = sched.action

\* A conflict listed after a validation error, with a resolver that is not a
\* function, was left to the default rule and retried.
C17_Witness ==
    /\ Decided
    /\ ErrorList = <<ErrorEntry(ValidationType), ErrorEntry(ConditionalCheckType)>>
    /\ sched.fn = Null
    /\ sched.retries = 0
    /\ ~sched.error.permanent
    /\ sched.outcome.result = FALSE

\* C19: the predicate changes the action only when it takes the resolver's
\* answer as new variables, and then only the queued effect's variables; a
\* call that returns true, or returns false by the default rule, leaves the
\* whole action as it was.
C19_OnlyVariablesChange ==
    Decided =>
        /\ sched.outcome.action =
                [sched.action EXCEPT !.meta.offline.effect.variables =
                    sched.outcome.action.meta.offline.effect.variables]
        /\ (sched.outcome.threw \/ sched.outcome.result = TRUE \/ ~AnswersReplacement) =>
                sched.outcome.action = sched.action

\* A resolver answered "DISCARD" for a conflict, and another call replaced
\* the variables.
C19_Witness ==
    /\ Decided
    /\ HasConditionalCheck
    /\ sched.fn = OnceResolver
    /\ sched.action.meta.offline.effect.variables = V2
    /\ sched.outcome.result = TRUE
    /\ sched.outcome.invoked

\* C13 as stated: in the scheduler's loop an effect whose every attempt
\* fails with a transient error that is not permanent is retried at most 10
\* times. (The predicate answers false for the retry counts 0..10, so the
\* loop retries an eleventh time.)
C13_AsStated == sched.onlyTransient => sched.retries <= 10

\* The second call was made.
DecidedTwice == sched.phase = "decided twice"

\* What the resolver answers for the action as the first call left it.
SecondAnswer ==
    CallResolver(ResolverInForce,
        [variables |-> sched.outcome.action.meta.offline.effect.variables,
         data |-> ServerData])

\* C14 as stated: two calls in succession with the same error, action and
\* retry count give the same result and the same variables.
C14_AsStated ==
    DecidedTwice =>
        /\ sched.second.threw = sched.outcome.threw
        /\ sched.second.result = sched.outcome.result
        /\ sched.second.action.meta.offline.effect.variables =
                sched.outcome.action.meta.offline.effect.variables

\* C14, amended: the second call answers for the action as the first call
\* left it. The two calls agree when the first did not replace the
\* variables, and when the resolver answers for the replaced variables what
\* it answered before; a resolver that replaces the variables once and
\* answers "DISCARD" for the replaced ones gets false, then true.
C14_SecondCallSeesReplacedVariables ==
    DecidedTwice =>
        /\ ~AnswersReplacement =>
                /\ sched.outcome.action = sched.action
                /\ sched.second = sched.outcome
        /\ AnswersReplacement =>
                /\ sched.outcome.result = FALSE
                /\ sched.outcome.action.meta.offline.effect.variables = ResolverAnswer.value
                /\ SecondAnswer = ResolverAnswer => sched.second = sched.outcome
        /\ (AnswersReplacement /\ sched.fn = OnceResolver) =>
                /\ sched.second.result = TRUE
                /\ sched.second.action = sched.outcome.action

\* The first call replaced the variables and returned false, the second
\* returned true.
C14_Witness ==
    /\ DecidedTwice
    /\ sched.fn = OnceResolver
    /\ sched.outcome.result = FALSE
    /\ sched.second.result = TRUE
    /\ sched.outcome.action # sched.action

\* C18: a conditional check failure that the resolver answers with new
\* variables gets false for every retry count, above the ceiling too, and
\* for a permanent error too; a loop of such failures goes on past the
\* ceiling.
C18_ReplacementIgnoresCeiling ==
    (Decided /\ AnswersReplacement) =>
        /\ ~sched.outcome.threw
        /\ sched.outcome.result = FALSE
        /\ sched.outcome.action.meta.offline.effect.variables = ResolverAnswer.value

\* The loop reached a retry count above the ceiling, with a permanent error,
\* and the predicate answered false again.
C18_Witness ==
    /\ Decided
    /\ AnswersReplacement
    /\ sched.retries > 11
    /\ sched.error.permanent
    /\ sched.outcome.result = FALSE

\* C20: what the link does with a mutation that is no replay does not depend
\* on the connectivity flag: two calls with the same operation and the same
\* cache, one online and one offline, dispatch the same Enqueue actions,
\* emit the same results and take the same decision to forward, and each
\* call did what it would have done under the other value of the flag; a
\* mutation with an optimistic response handled while online is queued and
\* not forwarded.
C20_MutationIgnoresConnectivity ==
    /\ \A i, j \in CallIds :
            (/\ IsMutationOp(calls[i].operation)
             /\ ~IsReplayOp(calls[i].operation)
             /\ calls[j].operation = calls[i].operation
             /\ calls[j].cache = calls[i].cache
             /\ calls[j].online # calls[i].online) =>
                /\ StepsOf(calls[i], "dispatch") = StepsOf(calls[j], "dispatch")
                /\ Emitted(calls[i]) = Emitted(calls[j])
                /\ StepsOf(calls[i], "forward") = StepsOf(calls[j], "forward")
                /\ calls[i].steps = calls[j].steps
                /\ calls[i].handle = calls[j].handle
    /\ \A i \in CallIds :
            LET c == calls[i]
                other == request(c.operation, ~c.online, c.cache)
            IN  (IsMutationOp(c.operation) /\ ~IsReplayOp(c.operation)) =>
                    /\ c.steps = other.steps
                    /\ c.handle = other.handle
                    /\ (c.online /\ Declares(c.operation)) =>
                            /\ DispatchCount(c) = 1
                            /\ ForwardCount(c) = 0

\* The same mutation with an optimistic response was handled once online and
\* once offline, and was queued both times.
C20_Witness ==
    \E i, j \in CallIds :
        /\ IsMutationOp(calls[i].operation)
        /\ ~IsReplayOp(calls[i].operation)
        /\ Declares(calls[i].operation)
        /\ calls[j].operation = calls[i].operation
        /\ calls[j].cache = calls[i].cache
        /\ calls[i].online
        /\ ~calls[j].online
        /\ DispatchCount(calls[i]) = 1
        /\ DispatchCount(calls[j]) = 1
        /\ ForwardCount(calls[i]) = 0

\* The call went on to the downstream link and subscribed to it.
PassThrough(c) == c.handle

\* The downstream link had sent an error or a complete among its first n
\* events.
EndedWithin(c, n) == \E j \in 1..n : c.sent[j].k \in {"error", "complete"}

\* C15: when the consumer cancels a pass-through stream before the
\* downstream link has ended it, the downstream subscription is unsubscribed
\* at that step, the downstream link sends nothing more and the consumer has
\* received what was sent until then and nothing after; on the offline-query
\* and optimistic paths there is no downstream subscription, before or after
\* the cancellation, the cleanup function does nothing and the store has got
\* no other action than those the call itself dispatched.
C15_CancelUnsubscribes ==
    \A i \in CallIds :
        LET c == calls[i]
        IN  c.cancelAt # NotCancelled =>
                /\ (PassThrough(c) /\ ~EndedWithin(c, c.cancelAt)) =>
                        /\ c.sub = "unsubscribed"
                        /\ c.cleanup = UnsubscribeHandle
                        /\ Len(c.sent) = c.cancelAt
                        /\ Len(c.received) = c.cancelAt
                /\ ~PassThrough(c) =>
                        /\ c.sub = "none"
                        /\ c.cleanup = ReturnNull
                        /\ c.sent = <<>>
                        /\ c.received = <<>>
                        /\ Len(log) = DispatchCount(c)

\* A pass-through stream was cancelled after one result of the downstream
\* link, and the downstream subscription is unsubscribed.
C15_Witness ==
    \E i \in CallIds :
        /\ PassThrough(calls[i])
        /\ calls[i].cancelAt = 1
        /\ calls[i].sent = <<[k |-> "next", n |-> 1]>>
        /\ calls[i].received = calls[i].sent
        /\ calls[i].sub = "unsubscribed"

\* The events of the downstream link the stream's consumer was subscribed
\* for.
SentWhileSubscribed(c) ==
    IF c.cancelAt = NotCancelled THEN c.sent ELSE SubSeq(c.sent, 1, c.cancelAt)

\* C16: an online query, a replayed mutation, a mutation without optimistic
\* response and an operation of any other kind take the pass-through path:
\* the operation is forwarded once, as it came; the consumer receives every
\* next, error and complete of the downstream link as sent and in the order
\* sent, an error as an error; the link puts no result of its own into the
\* stream.
C16_PassThroughRelaysVerbatim ==
    \A i \in CallIds :
        LET c == calls[i]
        IN  /\ (\/ (IsQueryOp(c.operation) /\ c.online)
                \/ (IsMutationOp(c.operation) /\ IsReplayOp(c.operation))
                \/ (IsMutationOp(c.operation) /\ ~Declares(c.operation))
                \/ (~IsQueryOp(c.operation) /\ ~IsMutationOp(c.operation))) => PassThrough(c)
            /\ PassThrough(c) =>
                /\ StepsOf(c, "forward") = <<StepForward(c.operation)>>
                /\ c.steps[Len(c.steps)] = StepForward(c.operation)
                /\ Emitted(c) = <<>>
                /\ c.received = SentWhileSubscribed(c)
                /\ \A j \in 1..Len(SentWhileSubscribed(c)) :
                        c.sent[j].k = "error" => c.received[j].k = "error"

\* The downstream link sent a result and then an error to a pass-through
\* stream, and the consumer received both.
C16_Witness ==
    \E i \in CallIds :
        /\ PassThrough(calls[i])
        /\ calls[i].sent = <<[k |-> "next", n |-> 1], [k |-> "error", n |-> 2]>>
        /\ calls[i].received = calls[i].sent
        /\ calls[i].cancelAt = NotCancelled

====
